---- MODULE Spec2Model ----
(***************************************************************************)
(* A model of JFetch (src/include/jfetch.hpp): the header-only client that *)
(* builds an HTTP request for a registered endpoint, runs it through       *)
(* libcurl and hands the decoded JSON to the endpoint's parser.            *)
(*                                                                         *)
(* Text is modelled as a sequence of pieces.  In URLs, endpoint ids and    *)
(* query keys/values every piece is one character, so that separators can  *)
(* be counted; a literal of the code that never has to be looked into      *)
(* ("HTTP Error: ", a base URL) is one piece.  Request bodies and header   *)
(* lines are opaque strings; "" is the empty std::string.                  *)
(* A response body is a sequence of JSON tokens: "[" "]" "," the number    *)
(* literal "1" and "u", the text of the object {"url":"x"}.                *)
(***************************************************************************)
EXTENDS Integers, Sequences, FiniteSets, TLC

\* ------------------------------------------------------------------ bounds
MaxHeaders == 2     \* longest header list given to set_global_headers / fetch
MaxParams == 2      \* most entries in a query-parameter map
MaxBodyLen == 3     \* longest response body, in tokens

\* ------------------------------------------------------- small utilities
RECURSIVE SeqsUpTo(_, _)
SeqsUpTo(S, n) ==
  IF n = 0 THEN {<<>>}
  ELSE LET shorter == SeqsUpTo(S, n - 1)
       IN  shorter \cup {Append(s, x) : s \in {t \in shorter : Len(t) = n - 1}, x \in S}

Count(s, c) == Cardinality({i \in 1..Len(s) : s[i] = c})

\* every enumeration (without repetition) of the finite set S
Orders(S) ==
  {o \in [1..Cardinality(S) -> S] : \A i, j \in 1..Cardinality(S) : o[i] = o[j] => i = j}

\* ------------------------------------------------------ RequestMethod
RequestMethod == {"GET", "POST", "PUT", "DEL", "PATCH"}

\* HttpClient::method_to_string
method_to_string(method) ==
  CASE method = "GET" -> "GET"
    [] method = "POST" -> "POST"
    [] method = "PUT" -> "PUT"
    [] method = "DEL" -> "DELETE"
    [] method = "PATCH" -> "PATCH"
    [] OTHER -> "GET"

\* ------------------------------------------------------ exception classes
\* An exception object: its dynamic class, what() and, for the HTTP
\* exception, status_code(); -1 stands for "the class has no status code".
NoStatus == 0 - 1

to_string(n) == ToString(n)

JFetchException(message) ==
  [class |-> "JFetchException", what |-> message, status_code |-> NoStatus]

JFetchHTTPException(status, message) ==
  [class |-> "JFetchHTTPException",
   what |-> <<"HTTP Error: ">> \o message \o <<" (Status Code: ", to_string(status), ")">>,
   status_code |-> status]

JFetchParsingException(message) ==
  [class |-> "JFetchParsingException",
   what |-> <<"Parsing Error: ">> \o message,
   status_code |-> NoStatus]

JFetchEndpointNotFoundException(endpoint) ==
  [class |-> "JFetchEndpointNotFoundException",
   what |-> <<"Endpoint \"">> \o endpoint \o <<"\" not found in lookup table.">>,
   status_code |-> NoStatus]

\* exceptions of nlohmann::json, which are not JFetch classes
JsonParseError ==
  [class |-> "nlohmann::json::parse_error", what |-> <<"[json.exception.parse_error]">>,
   status_code |-> NoStatus]

JsonTypeError ==
  [class |-> "nlohmann::json::type_error", what |-> <<"[json.exception.type_error]">>,
   status_code |-> NoStatus]

NoException == [class |-> "none", what |-> <<>>, status_code |-> NoStatus]

\* the direct base class of each class (the class declarations of jfetch.hpp)
BaseOf(class) ==
  CASE class = "JFetchException" -> "std::exception"
    [] class = "JFetchHTTPException" -> "JFetchException"
    [] class = "JFetchParsingException" -> "JFetchException"
    [] class = "JFetchEndpointNotFoundException" -> "JFetchException"
    [] class = "nlohmann::json::parse_error" -> "nlohmann::json::exception"
    [] class = "nlohmann::json::type_error" -> "nlohmann::json::exception"
    [] class = "nlohmann::json::exception" -> "std::exception"
    [] OTHER -> "none"

\* whether a catch (const handler&) clause catches an object of class `class`
RECURSIVE Catches(_, _)
Catches(handler, class) ==
  IF class = "none" THEN FALSE
  ELSE IF class = handler THEN TRUE
  ELSE Catches(handler, BaseOf(class))

\* ------------------------------------------------------ request builder
\* JFetch::fetch, the query loop: every entry appends key=value&, in the
\* iteration order of the unordered_map (`order`, an enumeration of the keys).
RECURSIVE AppendParams(_, _, _, _)
AppendParams(url, query_params, order, i) ==
  IF i > Len(order) THEN url
  ELSE AppendParams(url \o order[i] \o <<"=">> \o query_params[order[i]] \o <<"&">>,
                    query_params, order, i + 1)

\* std::string::pop_back
pop_back(s) == SubSeq(s, 1, Len(s) - 1)

\* a slip in the query loop: the trailing separator is left in place
BuildUrlNoPop(b, endpoint, query_params, order) ==
  IF DOMAIN query_params # {}
  THEN AppendParams(b \o endpoint \o <<"?">>, query_params, order, 1)
  ELSE b \o endpoint

\* JFetch::fetch: full_url
BuildUrl(b, endpoint, query_params, order) ==
  IF DOMAIN query_params # {}
  THEN pop_back(AppendParams(b \o endpoint \o <<"?">>, query_params, order, 1))
  ELSE b \o endpoint

\* a slip in the merge: the custom headers are put first
MergeHeadersCustomFirst(global, custom_headers) == custom_headers \o global

\* JFetch::fetch: headers = global_headers, then insert(end, custom...)
MergeHeaders(global, custom_headers) == global \o custom_headers

\* a slip in the body selection: the default wins whenever there is one
SelectBodyDefaultFirst(custom_body, dflt) == IF dflt = "" THEN custom_body ELSE dflt

\* JFetch::fetch: body = custom_body.empty() ? get_body() : custom_body
SelectBody(custom_body, dflt) == IF custom_body = "" THEN dflt ELSE custom_body

\* whether key is a proper or improper prefix of endpoint
IsPrefix(key, endpoint) ==
  Len(key) <= Len(endpoint) /\ SubSeq(endpoint, 1, Len(key)) = key

\* a slip in the lookup: the longest registered key the id starts with
FindByPrefix(table, endpoint) ==
  LET hits == {k \in DOMAIN table : IsPrefix(k, endpoint)}
  IN  {k \in hits : \A h \in hits : Len(h) <= Len(k)}

\* endpoint_lookup.find(endpoint): the matching keys, {} for end()
Find(table, endpoint) == {k \in DOMAIN table : k = endpoint}

\* ------------------------------------------------------ transport adapter
\* a slip in the body guard: the body is attached whatever the method
PostFieldsAnyMethod(method, body) ==
  IF body # "" THEN [set |-> TRUE, data |-> body] ELSE [set |-> FALSE, data |-> ""]

\* perform_request: CURLOPT_POSTFIELDS is set only for a non-empty body of
\* a POST, PUT or PATCH
PostFields(method, body) ==
  IF body # "" /\ (method = "POST" \/ method = "PUT" \/ method = "PATCH")
  THEN [set |-> TRUE, data |-> body]
  ELSE [set |-> FALSE, data |-> ""]

\* curl_easy_strerror
curl_easy_strerror(res) ==
  CASE res = "CURLE_OK" -> <<"No error">>
    [] res = "CURLE_COULDNT_RESOLVE_HOST" -> <<"Couldn't resolve host name">>
    [] res = "CURLE_OPERATION_TIMEDOUT" -> <<"Timeout was reached">>
    [] res = "CURLE_PARTIAL_FILE" -> <<"Transferred a partial file">>
    [] OTHER -> <<"Unknown error">>

\* nothing was handed to libcurl
NoWire ==
  [sent |-> FALSE, url |-> <<>>, verb |-> "", header_list |-> <<>>,
   postfields |-> [set |-> FALSE, data |-> ""]]

\* the steps of perform_request once the handle exists, with `performs` calls
\* of curl_easy_perform
Transfer(url, method, headers, body, e, performs) ==
  LET wire == [sent |-> TRUE, url |-> url, verb |-> method_to_string(method),
               header_list |-> headers, postfields |-> PostFields(method, body)]
      steps == <<"perform_request", "curl_easy_init">>
               \o [i \in 1..performs |-> "curl_easy_perform"]
  IN  IF e.res # "CURLE_OK"
      THEN [threw |-> TRUE,
            exc |-> JFetchHTTPException(e.http_status, curl_easy_strerror(e.res)),
            response |-> e.response, steps |-> steps, wire |-> wire]
      ELSE IF e.http_status < 200 \/ e.http_status >= 300
      THEN [threw |-> TRUE,
            exc |-> JFetchHTTPException(e.http_status, <<"Unexpected HTTP status code">>),
            response |-> e.response, steps |-> steps, wire |-> wire]
      ELSE [threw |-> FALSE, exc |-> NoException,
            response |-> e.response, steps |-> steps, wire |-> wire]

\* a slip in the transport: a failed transfer is tried once more
PerformRequestRetry(url, method, headers, body, e) ==
  IF ~e.init_ok
  THEN [threw |-> TRUE, exc |-> JFetchException(<<"Failed to initialize CURL">>),
        response |-> <<>>, steps |-> <<"perform_request", "curl_easy_init">>,
        wire |-> NoWire]
  ELSE Transfer(url, method, headers, body, e, IF e.res # "CURLE_OK" THEN 2 ELSE 1)

\* HttpClient::perform_request under the outcome e of libcurl:
\* e.init_ok (curl_easy_init returned a handle), e.res (curl_easy_perform),
\* e.http_status (CURLINFO_RESPONSE_CODE), e.response (what write_callback
\* appended)
PerformRequest(url, method, headers, body, e) ==
  IF ~e.init_ok
  THEN [threw |-> TRUE, exc |-> JFetchException(<<"Failed to initialize CURL">>),
        response |-> <<>>, steps |-> <<"perform_request", "curl_easy_init">>,
        wire |-> NoWire]
  ELSE Transfer(url, method, headers, body, e, 1)

\* ------------------------------------------------------ response pipeline
\* JSON values
JNumber == [t |-> "number", items |-> <<>>, keys |-> {}]
JObjectUrl == [t |-> "object", items |-> <<>>, keys |-> {"url"}]
JArray(items) == [t |-> "array", items |-> items, keys |-> {}]
JNone == [t |-> "discarded", items |-> <<>>, keys |-> {}]

ParseFail == [ok |-> FALSE, val |-> JNone, next |-> 0]

\* nlohmann::json::parse over the token alphabet: a recursive descent that
\* reads one value starting at token i and reports where it stopped
RECURSIVE ParseValue(_, _)
RECURSIVE ParseElements(_, _, _)
ParseValue(s, i) ==
  IF i > Len(s) THEN ParseFail
  ELSE CASE s[i] = "1" -> [ok |-> TRUE, val |-> JNumber, next |-> i + 1]
         [] s[i] = "u" -> [ok |-> TRUE, val |-> JObjectUrl, next |-> i + 1]
         [] s[i] = "[" ->
              IF i + 1 <= Len(s) /\ s[i + 1] = "]"
              THEN [ok |-> TRUE, val |-> JArray(<<>>), next |-> i + 2]
              ELSE ParseElements(s, i + 1, <<>>)
         [] OTHER -> ParseFail

ParseElements(s, i, acc) ==
  LET r == ParseValue(s, i)
  IN  IF ~r.ok \/ r.next > Len(s) THEN ParseFail
      ELSE IF s[r.next] = "," THEN ParseElements(s, r.next + 1, Append(acc, r.val))
      ELSE IF s[r.next] = "]"
      THEN [ok |-> TRUE, val |-> JArray(Append(acc, r.val)), next |-> r.next + 1]
      ELSE ParseFail

\* nlohmann::json::parse(raw_json): the whole input must be one value
JsonParse(raw_json) ==
  LET r == ParseValue(raw_json, 1)
  IN  IF r.ok /\ r.next = Len(raw_json) + 1
      THEN [ok |-> TRUE, val |-> r.val]
      ELSE [ok |-> FALSE, val |-> JNone]

\* nlohmann::json::empty(): an array or object without elements
JsonEmpty(j) ==
  (j.t = "array" /\ Len(j.items) = 0) \/ (j.t = "object" /\ j.keys = {})

\* the result of a parser: a value of T or an exception
Returned(v) == [threw |-> FALSE, exc |-> NoException, value |-> v]
Thrown(x) == [threw |-> TRUE, exc |-> x, value |-> JNone]

\* the parser of examples/error.cpp: wraps the document as it is
GenericParser(json_data) == Returned(json_data)

\* the parser of examples/cat_image.cpp: json_data[0]["url"] or a parsing
\* exception; operator[](0) of a const value that is no array throws
\* nlohmann's type_error
CatParser(json_data) ==
  IF ~JsonEmpty(json_data)
  THEN IF json_data.t # "array" THEN Thrown(JsonTypeError)
       ELSE IF json_data.items[1].t = "object" /\ "url" \in json_data.items[1].keys
       THEN Returned(json_data.items[1])
       ELSE Thrown(JFetchParsingException(
                     <<"[ERROR] 'url' field not found in JSON response.">>))
  ELSE Thrown(JFetchParsingException(
                <<"[ERROR] 'url' field not found in JSON response.">>))

\* lambda(json_data) for the parser registered under the name `lambda`
Invoke(lambda, json_data) ==
  IF lambda = "cat" THEN CatParser(json_data) ELSE GenericParser(json_data)

\* ------------------------------------------------------ JFetch::fetch
NoRequest == [built |-> FALSE, url |-> <<>>, method |-> "", lambda |-> "",
              headers |-> <<>>, body |-> ""]

Failure(x) == [kind |-> "exception", exc |-> x, value |-> JNone]
Success(v) == [kind |-> "value", exc |-> NoException, value |-> v]
NoResult == [kind |-> "none", exc |-> NoException, value |-> JNone]

\* the part of fetch after the lookup succeeded with key `key`
Dispatch(table, key, full_url, headers, body, e) ==
  LET method == table[key].method
      lambda == table[key].lambda
      client == [built |-> TRUE, url |-> full_url, method |-> method,
                 lambda |-> lambda, headers |-> headers, body |-> body]
      sent == PerformRequest(full_url, method, headers, body, e)
      json_data == JsonParse(sent.response)
      parsed == Invoke(lambda, json_data.val)
  IN  IF sent.threw
      THEN [request |-> client, wire |-> sent.wire, result |-> Failure(sent.exc),
            steps |-> <<"lookup">> \o sent.steps]
      ELSE IF ~json_data.ok
      THEN [request |-> client, wire |-> sent.wire, result |-> Failure(JsonParseError),
            steps |-> <<"lookup">> \o sent.steps \o <<"json::parse">>]
      ELSE [request |-> client, wire |-> sent.wire,
            result |-> IF parsed.threw THEN Failure(parsed.exc) ELSE Success(parsed.value),
            steps |-> <<"lookup">> \o sent.steps \o <<"json::parse", "lambda">>]

\* JFetch::fetch as a function of the client's state, the arguments, the
\* iteration order of query_params and what libcurl does
FetchOutcome(b, dflt, table, global, endpoint, query_params, order, custom_headers, custom_body, e) ==
  LET full_url == BuildUrl(b, endpoint, query_params, order)
      headers == MergeHeaders(global, custom_headers)
      body == SelectBody(custom_body, dflt)
      found == Find(table, endpoint)
  IN  IF found = {}
      THEN [request |-> NoRequest, wire |-> NoWire,
            result |-> Failure(JFetchEndpointNotFoundException(endpoint)),
            steps |-> <<"lookup">>]
      ELSE Dispatch(table, CHOOSE k \in found : TRUE, full_url, headers, body, e)

\* JFetch::set_global_headers: global_headers = headers
NewGlobalHeaders(old, headers) == headers

\* ------------------------------------------------------ the client
VARIABLES
  base,             \* get_base() of the concrete client
  default_body,     \* get_body() of the concrete client
  endpoint_lookup,  \* endpoint id -> (method, parser), filled by the constructor
  global_headers,   \* the member global_headers
  last_set,         \* the argument of the latest set_global_headers call
  op,               \* the latest operation: "none", "set_global_headers", "fetch"
  call,             \* the arguments of the latest fetch
  env,              \* what libcurl did during the latest fetch
  request,          \* the HttpClient the latest fetch constructed
  wire,             \* what that HttpClient configured on the curl handle
  result,           \* how the latest fetch ended
  steps             \* the calls the latest fetch made, in order

vars == <<base, default_body, endpoint_lookup, global_headers, last_set, op,
          call, env, request, wire, result, steps>>

\* the endpoint table of the modelled client: one endpoint per method, with
\* the parsers of the examples; "/g" is a prefix of "/gx", and "/u?" holds
\* a separator
Table ==
  (<<"/", "g">> :> [method |-> "GET", lambda |-> "cat"])
  @@ (<<"/", "g", "x">> :> [method |-> "POST", lambda |-> "generic"])
  @@ (<<"/", "u", "?">> :> [method |-> "PUT", lambda |-> "generic"])
  @@ (<<"/", "d">> :> [method |-> "DEL", lambda |-> "cat"])
  @@ (<<"/", "h">> :> [method |-> "PATCH", lambda |-> "generic"])

\* ids that are no key: a prefix, a suffix, a key with a query part, a key
\* with one more character
Unregistered ==
  {<<"/">>, <<"g">>, <<"/", "g", "?">>, <<"/", "g", "x", "y">>}

EndpointIds == DOMAIN Table \cup Unregistered

Bases == {<<"https://api.example">>}
DefaultBodies == {"", "{\"default\":1}"}
HeaderLines == {"Accept: a", "X-Key: k"}
CustomBodies == {"", "{\"custom\":2}"}

\* all maps with at most n keys from K and values from V
ParamMaps(K, V, n) ==
  UNION {[D -> V] : D \in {D \in SUBSET K : Cardinality(D) <= n}}

\* libcurl's outcomes
InitFailed ==
  [init_ok |-> FALSE, res |-> "not performed", http_status |-> 0, response |-> <<>>]

Completed(statuses, responses) ==
  [init_ok : {TRUE}, res : {"CURLE_OK"}, http_status : statuses, response : responses]

\* a transfer that failed: before any response (status 0), or after the
\* status line of a response had arrived
Incomplete ==
  [init_ok : {TRUE}, res : {"CURLE_COULDNT_RESOLVE_HOST"}, http_status : {0},
   response : {<<>>}]
  \cup [init_ok : {TRUE}, res : {"CURLE_OPERATION_TIMEDOUT"}, http_status : {0, 200, 404},
        response : {<<>>, <<"[">>}]
  \cup [init_ok : {TRUE}, res : {"CURLE_PARTIAL_FILE"}, http_status : {200},
        response : {<<"[">>}]

Statuses == {199, 200, 204, 299, 300, 401, 500}
Responses == {<<"[", "u", "]">>, <<"[", "]">>, <<"1">>, <<"[", "u">>}

NoCall == [endpoint |-> <<>>, query_params |-> <<>>, custom_headers |-> <<>>,
           custom_body |-> ""]

Init ==
  /\ base \in Bases
  /\ default_body \in DefaultBodies
  /\ endpoint_lookup = Table
  /\ global_headers = <<>>
  /\ last_set = <<>>
  /\ op = "none"
  /\ call = NoCall
  /\ env = InitFailed
  /\ request = NoRequest
  /\ wire = NoWire
  /\ result = NoResult
  /\ steps = <<>>

\* set_global_headers(headers)
SetGlobalHeaders(headers) ==
  /\ global_headers' = NewGlobalHeaders(global_headers, headers)
  /\ last_set' = headers
  /\ op' = "set_global_headers"
  /\ call' = NoCall
  /\ env' = InitFailed
  /\ request' = NoRequest
  /\ wire' = NoWire
  /\ result' = NoResult
  /\ steps' = <<>>
  /\ UNCHANGED <<base, default_body, endpoint_lookup>>

\* fetch(endpoint, query_params, custom_headers, custom_body)
Fetch(endpoint, query_params, order, custom_headers, custom_body, e) ==
  LET o == FetchOutcome(base, default_body, endpoint_lookup, global_headers,
                        endpoint, query_params, order, custom_headers, custom_body, e)
  IN  /\ op' = "fetch"
      /\ call' = [endpoint |-> endpoint, query_params |-> query_params,
                  custom_headers |-> custom_headers, custom_body |-> custom_body]
      /\ env' = e
      /\ request' = o.request
      /\ wire' = o.wire
      /\ result' = o.result
      /\ steps' = o.steps
      /\ UNCHANGED <<base, default_body, endpoint_lookup, global_headers, last_set>>

\* ---- Spec: every outcome of the transport and of the response pipeline
SetHeaders ==
  \E headers \in SeqsUpTo(HeaderLines, 1) : SetGlobalHeaders(headers)

FetchOutcomes ==
  \E endpoint \in {<<"/", "g">>, <<"/", "g", "x">>, <<"/", "g", "?">>},
     custom_body \in CustomBodies,
     e \in {InitFailed} \cup Completed(Statuses, Responses) \cup Incomplete :
    Fetch(endpoint, <<>>, <<>>, <<>>, custom_body, e)

Next == SetHeaders \/ FetchOutcomes

Spec == Init /\ [][Next]_vars

\* ---- SpecResponse: every response body of at most MaxBodyLen tokens
JsonTokens == {"[", "]", ",", "1", "u"}

FetchResponses ==
  \E endpoint \in {<<"/", "g">>, <<"/", "g", "x">>},
     e \in Completed({200}, SeqsUpTo(JsonTokens, MaxBodyLen))
           \cup Completed({404}, {<<"[", "]">>}) :
    Fetch(endpoint, <<>>, <<>>, <<>>, "", e)

NextResponse == SetHeaders \/ FetchResponses

SpecResponse == Init /\ [][NextResponse]_vars

\* ---- SpecRequest: every endpoint id, with and without bodies
FetchRequests ==
  \E endpoint \in EndpointIds,
     query_params \in ParamMaps({<<"k">>}, {<<"v">>}, 1),
     custom_body \in CustomBodies,
     e \in {InitFailed} \cup Completed({200, 404}, {<<"[", "u", "]">>}) :
    \E order \in Orders(DOMAIN query_params) :
      Fetch(endpoint, query_params, order, <<>>, custom_body, e)

NextRequest == SetHeaders \/ FetchRequests

SpecRequest == Init /\ [][NextRequest]_vars

\* ---- SpecHeaders: header lists of at most MaxHeaders lines
SetHeaderLists ==
  \E headers \in SeqsUpTo(HeaderLines, MaxHeaders) : SetGlobalHeaders(headers)

FetchHeaders ==
  \E endpoint \in {<<"/", "g", "x">>, <<"/">>},
     custom_headers \in SeqsUpTo(HeaderLines, MaxHeaders),
     e \in Completed({200, 500}, {<<"1">>}) :
    Fetch(endpoint, <<>>, <<>>, custom_headers, "", e)

NextHeaders == SetHeaderLists \/ FetchHeaders

SpecHeaders == Init /\ [][NextHeaders]_vars

\* ---- SpecUrl: query-parameter maps of at most MaxParams entries, whose
\* keys and values may hold the separators themselves
QueryKeys == {<<"k">>, <<"q">>, <<"a", "=">>}
QueryValues == {<<>>, <<"v">>, <<"?", "&">>}

FetchUrls ==
  \E endpoint \in {<<"/", "g">>, <<"/", "u", "?">>},
     query_params \in ParamMaps(QueryKeys, QueryValues, MaxParams),
     e \in Completed({200}, {<<"[", "u", "]">>}) :
    \E order \in Orders(DOMAIN query_params) :
      Fetch(endpoint, query_params, order, <<>>, "", e)

ClearHeaders == SetGlobalHeaders(<<>>)

NextUrl == ClearHeaders \/ FetchUrls

SpecUrl == Init /\ [][NextUrl]_vars

\* ====================================================== properties
Registered == call.endpoint \in DOMAIN endpoint_lookup
Threw(class) == result.kind = "exception" /\ result.exc.class = class
Is2xx(status) == status >= 200 /\ status < 300

\* C1: for every outcome of the transport call a fetch made, the fetch ends
\* in an HTTP status error exactly when the returned status code is below
\* 200 or at least 300, and the error carries that code.
C1_StatusErrorIffOutside2xx ==
  (op = "fetch" /\ "curl_easy_perform" \in {steps[i] : i \in 1..Len(steps)}) =>
    /\ Threw("JFetchHTTPException") <=> ~Is2xx(env.http_status)
    /\ Threw("JFetchHTTPException") => result.exc.status_code = env.http_status

\* C2: a fetch whose curl handle could not be created, or whose transfer did
\* not complete, ends in one and the same transport error kind: an exception
\* of the client that no handler for the HTTP status error catches, carrying
\* the transport's message.
C2_TransportFailureIsTransportError ==
  (op = "fetch" /\ request.built /\ (~env.init_ok \/ env.res # "CURLE_OK")) =>
    /\ result.kind = "exception"
    /\ result.exc.class = "JFetchException"
    /\ ~Catches("JFetchHTTPException", result.exc.class)
    /\ env.init_ok =>
         \E i \in 1..Len(result.exc.what) :
           <<result.exc.what[i]>> = curl_easy_strerror(env.res)

\* the well-formed documents of at most five tokens, generated from the
\* grammar: value ::= 1 | u | [] | [ value ] | [ value , value ]
JsonAtoms == {<<"1">>, <<"u">>, <<"[", "]">>}
JsonWrap(S) ==
  S \cup {<<"[">> \o a \o <<"]">> : a \in S}
    \cup {<<"[">> \o a \o <<",">> \o b \o <<"]">> : a \in S, b \in S}
WellFormedJson == JsonWrap(JsonWrap(JsonAtoms))

\* C3: a fetch whose transfer completed with a 2xx status and whose response
\* body is not well-formed JSON ends in the client's parsing exception, and
\* the endpoint's parser is never invoked.
C3_MalformedJsonIsParsingFailure ==
  (op = "fetch" /\ request.built /\ env.init_ok /\ env.res = "CURLE_OK"
     /\ Is2xx(env.http_status) /\ env.response \notin WellFormedJson) =>
    /\ Threw("JFetchParsingException")
    /\ "lambda" \notin {steps[i] : i \in 1..Len(steps)}

\* C4: every exception a fetch ends in is caught by a handler for the
\* client's base class JFetchException.
C4_EveryFailureIsAJFetchException ==
  (op = "fetch" /\ result.kind = "exception") =>
    Catches("JFetchException", result.exc.class)

\* C5: a fetch of an id that is a key of the table constructs its request
\* with the method and parser registered under exactly that key; a fetch of
\* any other id ends in the endpoint-not-found exception naming the id, and
\* constructs no request.
C5_LookupIsExactMatch ==
  op = "fetch" =>
    IF Registered
    THEN /\ request.built
         /\ request.method = endpoint_lookup[call.endpoint].method
         /\ request.lambda = endpoint_lookup[call.endpoint].lambda
         /\ ~Threw("JFetchEndpointNotFoundException")
         /\ wire.sent => wire.verb = method_to_string(endpoint_lookup[call.endpoint].method)
    ELSE /\ ~request.built
         /\ ~wire.sent
         /\ Threw("JFetchEndpointNotFoundException")
         /\ SubSeq(result.exc.what, 2, Len(result.exc.what) - 1) = call.endpoint

\* C5 witness: an id that only starts with a registered key was refused.
C5_Witness_NearMissRefused ==
  /\ op = "fetch"
  /\ ~Registered
  /\ \E k \in DOMAIN endpoint_lookup : IsPrefix(k, call.endpoint)
  /\ Threw("JFetchEndpointNotFoundException")

\* the pairs key=value of the map in the given order, "&" between them
RECURSIVE JoinPairs(_, _, _)
JoinPairs(query_params, order, i) ==
  IF i > Len(order) THEN <<>>
  ELSE (IF i = 1 THEN <<>> ELSE <<"&">>)
       \o order[i] \o <<"=">> \o query_params[order[i]]
       \o JoinPairs(query_params, order, i + 1)

\* occurrences of character c in the keys and values of the map
RECURSIVE CountInMap(_, _, _)
CountInMap(query_params, keys, c) ==
  IF keys = {} THEN 0
  ELSE LET k == CHOOSE x \in keys : TRUE
       IN  Count(k, c) + Count(query_params[k], c)
           + CountInMap(query_params, keys \ {k}, c)

CountInInputs(c) ==
  Count(base, c) + Count(call.endpoint, c)
  + CountInMap(call.query_params, DOMAIN call.query_params, c)

UrlIsJoinedPairs ==
  IF DOMAIN call.query_params = {}
  THEN request.url = base \o call.endpoint
  ELSE \E order \in Orders(DOMAIN call.query_params) :
         request.url = base \o call.endpoint \o <<"?">>
                       \o JoinPairs(call.query_params, order, 1)

\* C6 as stated: with a non-empty map the URL holds exactly one "?" and
\* does not end in "&" or "?", and is base + endpoint + "?" + the pairs
\* joined by "&"; with an empty map it is base + endpoint.
C6_ExactlyOneQuestionMark ==
  (op = "fetch" /\ request.built) =>
    /\ UrlIsJoinedPairs
    /\ DOMAIN call.query_params # {} =>
         /\ Count(request.url, "?") = 1
         /\ request.url[Len(request.url)] \notin {"&", "?"}

\* C6 amended: the URL is base + endpoint + "?" + the pairs joined by "&"
\* (base + endpoint for an empty map); the builder adds exactly one "?" and
\* one "&" less than there are pairs to the separators its inputs already
\* hold, and nothing after the last value; so the URL holds exactly one "?"
\* and ends in no separator whenever the inputs hold none.
C6_UrlIsPairsJoinedOnce ==
  (op = "fetch" /\ request.built) =>
    /\ UrlIsJoinedPairs
    /\ DOMAIN call.query_params # {} =>
         /\ Count(request.url, "?") = 1 + CountInInputs("?")
         /\ Count(request.url, "&") =
              Cardinality(DOMAIN call.query_params) - 1 + CountInInputs("&")
         /\ (CountInInputs("?") = 0 /\ CountInInputs("&") = 0) =>
              /\ Count(request.url, "?") = 1
              /\ request.url[Len(request.url)] \notin {"&", "?"}

\* C6 witness: a URL was built from two pairs whose values hold separators.
C6_Witness_SeparatorsInValues ==
  /\ op = "fetch"
  /\ request.built
  /\ Cardinality(DOMAIN call.query_params) = 2
  /\ Count(request.url, "?") > 1
  /\ request.url[Len(request.url)] = "&"

\* C7: the global list is the list given to the latest set_global_headers
\* call (empty before the first), also after a fetch; the headers a fetch
\* hands to the transport are that list followed by the fetch's custom
\* headers, order and duplicates kept.
C7_HeadersAreGlobalThenCustom ==
  /\ global_headers = last_set
  /\ (op = "fetch" /\ request.built) =>
       request.headers = last_set \o call.custom_headers
  /\ (op = "fetch" /\ wire.sent) =>
       wire.header_list = last_set \o call.custom_headers

\* C7 witness: a fetch merged a global list and a custom list that share a
\* line and differ in their first line.
C7_Witness_DuplicateKept ==
  /\ op = "fetch"
  /\ wire.sent
  /\ Len(last_set) = 2
  /\ Len(call.custom_headers) = 2
  /\ last_set[1] # call.custom_headers[1]
  /\ last_set[2] = call.custom_headers[1]
  /\ Len(wire.header_list) = 4

\* C8: the request body is the custom body when that is non-empty, the
\* default body when the custom body is empty, and empty when both are.
C8_BodySelection ==
  (op = "fetch" /\ request.built) =>
    /\ call.custom_body # "" => request.body = call.custom_body
    /\ call.custom_body = "" => request.body = default_body
    /\ (call.custom_body = "" /\ default_body = "") => request.body = ""

\* C8 witness: a non-empty custom body met a non-empty default.
C8_Witness_CustomOverridesDefault ==
  /\ op = "fetch"
  /\ request.built
  /\ call.custom_body # ""
  /\ default_body # ""
  /\ request.body = call.custom_body

CountSteps(name) == Count(steps, name)

\* C9: a fetch of a registered endpoint invokes the transport exactly once,
\* whatever the outcome, and that invocation starts at most one transfer;
\* a fetch of an unregistered endpoint invokes nothing after the lookup.
C9_OneTransportCallNoRetry ==
  op = "fetch" =>
    IF Registered
    THEN /\ CountSteps("perform_request") = 1
         /\ CountSteps("curl_easy_perform") <= 1
         /\ env.init_ok => CountSteps("curl_easy_perform") = 1
    ELSE steps = <<"lookup">>

\* C9 witness: a transfer failed and was not tried again.
C9_Witness_FailedTransferOnce ==
  /\ op = "fetch"
  /\ Registered
  /\ env.init_ok
  /\ env.res = "CURLE_OPERATION_TIMEDOUT"
  /\ result.kind = "exception"
  /\ CountSteps("curl_easy_perform") = 1

\* C10: the selected body is attached to the request only when it is
\* non-empty and the method is POST, PUT or PATCH; under GET and DELETE a
\* non-empty body is left out and the fetch still succeeds.
C10_BodyOnlyForPostPutPatch ==
  (op = "fetch" /\ wire.sent) =>
    /\ wire.postfields.set <=>
         (request.body # "" /\ request.method \in {"POST", "PUT", "PATCH"})
    /\ wire.postfields.set => wire.postfields.data = request.body
    /\ (request.method \in {"GET", "DEL"} /\ request.body # ""
          /\ env.res = "CURLE_OK" /\ Is2xx(env.http_status)) =>
         result.kind = "value"

\* C10 witness: a DELETE with a non-empty body went out without it and
\* succeeded.
C10_Witness_DeleteDropsBody ==
  /\ op = "fetch"
  /\ wire.sent
  /\ wire.verb = "DELETE"
  /\ request.body # ""
  /\ ~wire.postfields.set
  /\ result.kind = "value"

====
